---- MODULE Spec2Model ----
(***************************************************************************)
(* Session lifecycle core of MindPal: the useTavusVideo hook (the session  *)
(* orchestrator), the VideoConsultation component that drives it and the   *)
(* useVideoReports hook that persists the session report.                  *)
(*                                                                         *)
(* Time is counted in whole seconds.  A React state variable is written by *)
(* its setter and becomes visible to handlers at the next Render, which    *)
(* runs before any other event (dirty marks a pending render).  An async   *)
(* function is a process: every invocation keeps the values its closure    *)
(* captured when it was called, and one action is the synchronous run of   *)
(* code between two awaits.  A network request counts as sent in the       *)
(* action that issues it; its response is a later action.                  *)
(***************************************************************************)
EXTENDS Integers, Sequences, FiniteSets, TLC

\* ------------------------------------------------------------- bounds
MaxStarts == 2      \* handleStartSession invocations in one behaviour
MaxEnds == 2        \* manual handleEndSession invocations in one behaviour
MaxInputs == 4      \* inputs of the environment in one behaviour: calls,
                    \* failures of a collaborator, clock advances, unmount
MaxSchedules == 1   \* scheduleAllTaskNotifications calls in one behaviour
MaxTasks == 1       \* tasks that reminders are scheduled for
MaxHookCalls == 1   \* cancel, load and save calls of the reminder hook
MaxReschedules == 2 \* scheduleAllTaskNotifications calls for a task that is
                    \* created and then edited
MaxWrites == 2      \* store inserts through withRetry in one behaviour
MaxWriteAttempts == 3   \* attempts withRetry makes for one insert

\* ---------------------------------------------------- program constants
maxSessionTime == 900   \* VideoConsultation.tsx:83, seconds
maxRetries == 3         \* useTavusVideo.ts:199
RetryDelay == 2         \* useTavusVideo.ts:211, setTimeout(resolve, 2000)
TimerPeriod == 1        \* useTavusVideo.ts:43, setInterval(..., 1000)

None == 0               \* null: no session, no stream, no start time

\* useTaskNotifications counts in milliseconds; the model in minutes.
Day == 1440             \* minutes of a day (local time, no DST change)
OverdueDelay == 60      \* supabase.ts:802, 60 * 60 * 1000 ms
CompletionDelay == 1440 \* supabase.ts:808, 24 * 60 * 60 * 1000 ms
NoTime == 0 - 1         \* sessionStartTime === null

\* The clock jumps the environment takes between two runs of the event
\* loop: one retry delay, and a long wait that leaves one retry delay to
\* the session ceiling.
ClockSteps == {RetryDelay, maxSessionTime - RetryDelay}

\* Responses of POST /v2/conversations that createSession tells apart: a
\* conversation, the 400 'maximum concurrent conversations' conflict, and
\* any other failure (401, 429, 5xx, a body without the ids, no network).
Responses == {"ok", "conflict400", "server500"}

\* The environments the hook runs in: all services reachable, no provider
\* key configured, a key the provider rejects (every create request is
\* answered 401), the store unreachable, the client offline.
Environments ==
    { [key |-> TRUE, valid |-> TRUE, online |-> TRUE, store |-> TRUE],
      [key |-> FALSE, valid |-> FALSE, online |-> TRUE, store |-> TRUE],
      [key |-> TRUE, valid |-> FALSE, online |-> TRUE, store |-> TRUE],
      [key |-> TRUE, valid |-> TRUE, online |-> TRUE, store |-> FALSE],
      [key |-> TRUE, valid |-> TRUE, online |-> FALSE, store |-> TRUE] }

VARIABLES
    \* useTavusVideo: React state
    isSessionActive, sessionData, isLoading, sessionDuration, error,
    \* useTavusVideo: refs
    sessionTimerRef, localStreamRef,
    \* VideoConsultation: React state and lifecycle
    sessionStartTime, mounted, dirty, lastDeps,
    \* environment of the hook
    tavusApiKey, keyValid, isOnline, isConnectedToSupabase,
    \* wall clock and the interval timer of startTimer
    now, inputs, ticksDue,
    \* video provider: requests received, conversations created
    createRequests, conversations, endRequests,
    \* capture devices: streams handed out, track.stop() calls per stream
    acquired, trackStops,
    \* store: video_sessions rows, video_session_reports rows per session
    video_sessions, reports,
    \* invocations of handleStartSession and handleEndSession
    starts, ends,
    \* useTaskNotifications: React state (settings, notifications), the
    \* wall clock in minutes, the task_notifications table, the browser
    \* deliveries armed, the invocations of scheduleTaskNotification
    settings, notifications, clock, task_notifications, armed, scheduling,
    scheduleCalls,
    \* useTaskNotifications: the invocations of cancelTaskNotifications,
    \* the loadNotifications calls in flight, the invocations of
    \* saveSettings, the user's task_notification_settings row, and the
    \* number of cancel, load and save calls made
    cancelling, loading, saving, task_notification_settings, hookCalls,
    \* the inserts made through withRetry, each with the attempts made and
    \* the rows it has put in its table
    writes

hookState == <<isSessionActive, sessionData, isLoading, sessionDuration, error>>
hookRefs == <<sessionTimerRef, localStreamRef>>
compState == <<sessionStartTime, mounted, lastDeps>>
settingsVars == <<settings, saving, task_notification_settings>>
listVars == <<notifications, task_notifications, armed>>
remindVars == <<settingsVars, listVars, clock, scheduling, scheduleCalls,
                cancelling, loading, hookCalls>>
\* What no operation of the session core writes: its environment and the
\* state of the reminder hook.
envVars == <<tavusApiKey, keyValid, isOnline, isConnectedToSupabase,
             remindVars, writes>>
clockVars == <<now>>
providerVars == <<createRequests, conversations, endRequests>>
deviceVars == <<acquired, trackStops>>
storeVars == <<video_sessions, reports>>

vars == <<hookState, hookRefs, compState, dirty, envVars, clockVars, inputs,
          ticksDue,
          providerVars, deviceVars, storeVars, starts, ends>>

Sids == 1..MaxStarts        \* a start creates at most one conversation
Handles == 1..MaxStarts     \* a start acquires at most one stream

\* ------------------------------------------------------------ helpers

\* The step takes one input of the environment.
Input == inputs < MaxInputs /\ inputs' = inputs + 1

\* The step takes one if the collaborator failed.
InputIf(failed) == IF failed THEN Input ELSE UNCHANGED inputs

\* A setter called after the component unmounted changes nothing.
Set(old, new) == IF mounted THEN new ELSE old

\* stopLocalVideo that stops nothing.
stopLocalVideo_Noop(ref, stops) == stops

\* stopLocalVideo (useTavusVideo.ts:75-80): stop the tracks of the stream
\* the ref holds, if any.  The ref is null afterwards.
stopLocalVideo(ref, stops) ==
    IF ref # None THEN [stops EXCEPT ![ref] = @ + 1] ELSE stops

\* getElapsedTime (VideoConsultation.tsx:86-90)
getElapsedTime(startTime, active, t) ==
    IF startTime = NoTime \/ ~active THEN 0 ELSE t - startTime

\* timeRemaining (VideoConsultation.tsx:92)
timeRemaining(startTime, active, t) ==
    LET left == maxSessionTime - getElapsedTime(startTime, active, t)
    IN  IF left > 0 THEN left ELSE 0

\* The effect compares with < instead of <=: it never holds, the time
\* remaining being clamped at 0.
AutoEndCondition_Strict(active, startTime, remaining) ==
    active /\ startTime # NoTime /\ remaining < 0

\* Condition of the auto-end effect (VideoConsultation.tsx:577)
AutoEndCondition(active, startTime, remaining) ==
    active /\ startTime # NoTime /\ remaining <= 0

\* No guard at all.
AlreadyActive_Never == FALSE

\* Guard of startSession (useTavusVideo.ts:179) and of handleStartSession
\* (VideoConsultation.tsx:339): the only state either reads.
AlreadyActive == isSessionActive

\* The loop bound off by one: a fourth attempt.
RetryAllowed_OffByOne(retryCount) == retryCount <= maxRetries

\* Loop condition of the retry loop after a failed attempt
\* (useTavusVideo.ts:201, 209)
RetryAllowed(retryCount) == retryCount < maxRetries

\* Error classification of createSession (useTavusVideo.ts:117-156): the
\* message every failure ends in.  All of them make createSession return
\* null (useTavusVideo.ts:166-171).
ErrorMessage(resp) ==
    CASE resp = "conflict400" -> "already-active"
      [] resp = "server500" -> "unavailable"

\* A video_sessions row that was never inserted.
NoRow == [present |-> FALSE, ended |-> FALSE, duration_seconds |-> 0]

\* DEFAULT_SETTINGS (supabase.ts:741-752); times of day in minutes.
DEFAULT_SETTINGS ==
    [enabled |-> TRUE, reminderMinutes |-> 30, overdueEnabled |-> TRUE,
     completionReminders |-> TRUE,
     quietHours |-> [enabled |-> TRUE, start |-> 22 * 60, end |-> 8 * 60]]

NewStart == [pc |-> "acquiring", retryCount |-> 0, session |-> None,
             wakeAt |-> 0, result |-> "pending", attempts |-> 0,
             waits |-> 0, lastResp |-> "none", cancelled |-> FALSE]

DoneStart(s, res) == [s EXCEPT !.pc = "done", !.result = res]

SessionInit ==
    /\ isSessionActive = FALSE
    /\ sessionData = None
    /\ isLoading = FALSE
    /\ sessionDuration = 0
    /\ error = "none"
    /\ sessionTimerRef = FALSE
    /\ localStreamRef = None
    /\ sessionStartTime = NoTime
    /\ mounted = TRUE
    /\ dirty = FALSE
    /\ lastDeps = <<maxSessionTime, FALSE, NoTime>>
    /\ writes = <<>>
    /\ \E e \in Environments :
          /\ tavusApiKey = e.key
          /\ keyValid = e.valid
          /\ isOnline = e.online
          /\ isConnectedToSupabase = e.store
    /\ now = 0
    /\ inputs = 0
    /\ ticksDue = 0
    /\ createRequests = 0
    /\ conversations = 0
    /\ endRequests = [s \in Sids |-> 0]
    /\ acquired = 0
    /\ trackStops = [h \in Handles |-> 0]
    /\ video_sessions = [s \in Sids |-> NoRow]
    /\ reports = [s \in Sids |-> 0]
    /\ starts = <<>>
    /\ ends = <<>>

\* The reminder hook before anything was scheduled.
NothingScheduled ==
    /\ notifications = <<>>
    /\ task_notifications = <<>>
    /\ armed = <<>>
    /\ scheduling = <<>>
    /\ scheduleCalls = <<>>
    /\ cancelling = <<>>
    /\ loading = 0
    /\ saving = <<>>
    /\ hookCalls = 0

Init ==
    /\ SessionInit
    /\ settings = DEFAULT_SETTINGS
    /\ task_notification_settings = DEFAULT_SETTINGS
    /\ clock = 0
    /\ NothingScheduled

\* ------------------------------------------------- handleStartSession

\* handleStartSession up to its first await (VideoConsultation.tsx:324-349)
\* and startSession up to its first await (useTavusVideo.ts:177-191).  The
\* guards read the state of the render the handler was created in.
HandleStartSession ==
    /\ mounted /\ ~dirty
    /\ Len(starts) < MaxStarts
    /\ Input
    /\ starts' = Append(starts,
          IF ~isOnline \/ ~isConnectedToSupabase
          THEN DoneStart(NewStart, "not-connected")
          ELSE IF AlreadyActive
          THEN DoneStart(NewStart, "AlreadyActive")
          ELSE NewStart)
    /\ UNCHANGED <<hookState, hookRefs, compState, dirty, envVars, clockVars,
                   ticksDue, providerVars, deviceVars, storeVars, ends>>

\* The rest of one pass of the retry loop once createSession has returned
\* null (useTavusVideo.ts:207-221): count the failure, then either wait
\* RetryDelay or leave the loop, release the stream and return false.
AttemptFailed(i, s, ref, stops) ==
    LET rc == s.retryCount + 1
    IN  IF RetryAllowed(rc)
        THEN /\ starts' = [starts EXCEPT ![i] =
                    [s EXCEPT !.pc = "waiting", !.retryCount = rc,
                              !.wakeAt = now + RetryDelay, !.waits = @ + 1]]
             /\ localStreamRef' = ref
             /\ trackStops' = stops
        ELSE /\ starts' = [starts EXCEPT ![i] =
                    DoneStart([s EXCEPT !.retryCount = rc], "SessionCreateFailed")]
             /\ localStreamRef' = None
             /\ trackStops' = stopLocalVideo(ref, stops)

\* createSession without its preconditions: the request is sent whatever
\* the key and the connection.
LoopIteration_NoPrecondition(i, s0, ref, stops) ==
    LET s == [s0 EXCEPT !.attempts = @ + 1, !.wakeAt = 0,
                        !.lastResp = "none"]
    IN  /\ starts' = [starts EXCEPT ![i] = [s EXCEPT !.pc = "creating"]]
        /\ createRequests' = createRequests + 1
        /\ isLoading' = Set(isLoading, TRUE)
        /\ error' = Set(error, "none")
        /\ dirty' = mounted
        /\ localStreamRef' = ref
        /\ trackStops' = stops

\* One pass of the retry loop up to the await of the fetch
\* (useTavusVideo.ts:201-205, 83-115).  Without an API key or offline,
\* createSession returns null before it sends anything.
LoopIteration(i, s0, ref, stops) ==
    LET s == [s0 EXCEPT !.attempts = @ + 1, !.wakeAt = 0,
                        !.lastResp = "none"]
    IN  IF ~tavusApiKey \/ ~isOnline
        THEN /\ AttemptFailed(i, s, ref, stops)
             /\ UNCHANGED <<createRequests, isLoading, error, dirty>>
        ELSE /\ starts' = [starts EXCEPT ![i] = [s EXCEPT !.pc = "creating"]]
             /\ createRequests' = createRequests + 1
             /\ isLoading' = Set(isLoading, TRUE)
             /\ error' = Set(error, "none")
             /\ dirty' = mounted
             /\ localStreamRef' = ref
             /\ trackStops' = stops

\* getUserMedia resolves (useTavusVideo.ts:59-67): the new stream replaces
\* whatever the ref held, and startSession enters the retry loop.
AcquireOk(i) ==
    /\ ~dirty
    /\ starts[i].pc = "acquiring"
    /\ UNCHANGED inputs
    /\ acquired' = acquired + 1
    /\ LoopIteration(i, starts[i], acquired + 1, trackStops)
    /\ UNCHANGED <<isSessionActive, sessionData, sessionDuration,
                   sessionTimerRef, compState, envVars, clockVars, ticksDue,
                   conversations, endRequests, storeVars, ends>>

\* startSession without the check of the stream: it goes on to the
\* provider with no stream.
AcquireFail_NoCheck(i) ==
    /\ ~dirty
    /\ starts[i].pc = "acquiring"
    /\ Input
    /\ LoopIteration(i, starts[i], localStreamRef, trackStops)
    /\ UNCHANGED <<isSessionActive, sessionData, sessionDuration,
                   sessionTimerRef, compState, envVars, clockVars, ticksDue,
                   conversations, endRequests, acquired, storeVars, ends>>

\* getUserMedia rejects (useTavusVideo.ts:68-72, 192-194): startSession
\* returns false.
AcquireFail(i) ==
    /\ ~dirty
    /\ starts[i].pc = "acquiring"
    /\ Input
    /\ starts' = [starts EXCEPT ![i] = DoneStart(@, "MediaUnavailable")]
    /\ UNCHANGED <<hookState, hookRefs, compState, dirty, envVars, clockVars,
                   ticksDue, providerVars, deviceVars, storeVars, ends>>

\* The provider answers a create request; a key it rejects is a property
\* of the environment, any other failure an input.  On success createSession stores
\* the session (useTavusVideo.ts:151-165) and startSession leaves the loop
\* and sends the audit insert (useTavusVideo.ts:223-245); on any failure
\* createSession returns null (useTavusVideo.ts:117-149, 166-174).
CreateResponse(i) ==
    /\ ~dirty
    /\ starts[i].pc = "creating"
    /\ \E resp \in (IF keyValid THEN Responses ELSE {"server500"}) :
         LET s == [starts[i] EXCEPT !.lastResp = resp]
         IN  /\ InputIf(resp # "ok" /\ keyValid)
             /\ IF resp = "ok"
                THEN /\ conversations' = conversations + 1
                     /\ sessionData' = Set(sessionData, conversations + 1)
                     /\ starts' = [starts EXCEPT ![i] =
                           [s EXCEPT !.pc = "storing",
                                     !.session = conversations + 1]]
                     /\ UNCHANGED <<error, hookRefs, trackStops>>
                ELSE /\ error' = Set(error, ErrorMessage(resp))
                     /\ AttemptFailed(i, s, localStreamRef, trackStops)
                     /\ UNCHANGED <<conversations, sessionData,
                                    sessionTimerRef>>
    /\ isLoading' = Set(isLoading, FALSE)
    /\ dirty' = mounted
    /\ UNCHANGED <<isSessionActive, sessionDuration, compState, envVars,
                   clockVars, ticksDue, createRequests, endRequests, acquired,
                   storeVars, ends>>

\* The retry delay has elapsed (useTavusVideo.ts:211): next pass.
RetryWake(i) ==
    /\ ~dirty
    /\ starts[i].pc = "waiting"
    /\ now >= starts[i].wakeAt
    /\ UNCHANGED inputs
    /\ LoopIteration(i, starts[i], localStreamRef, trackStops)
    /\ UNCHANGED <<isSessionActive, sessionData, sessionDuration,
                   sessionTimerRef, compState, envVars, clockVars, ticksDue,
                   conversations, endRequests, acquired, storeVars, ends>>

\* startSession with the audit insert outside its inner try/catch: a
\* failed insert unwinds to the outer catch (useTavusVideo.ts:256-263),
\* which releases the stream and returns false.
StoreDone_FailureFatal(i) ==
    /\ ~dirty
    /\ starts[i].pc = "storing"
    /\ \E ok \in BOOLEAN :
         /\ InputIf(~ok)
         /\ video_sessions' =
               IF ok THEN [video_sessions EXCEPT ![starts[i].session] =
                              [present |-> TRUE, ended |-> FALSE,
                               duration_seconds |-> 0]]
               ELSE video_sessions
         /\ isSessionActive' = IF ok THEN Set(isSessionActive, TRUE)
                               ELSE isSessionActive
         /\ sessionTimerRef' = (ok \/ sessionTimerRef)
         /\ ticksDue' = IF ok THEN 0 ELSE ticksDue
         /\ sessionStartTime' = IF ok THEN Set(sessionStartTime, now)
                                ELSE sessionStartTime
         /\ error' = IF ok THEN error ELSE Set(error, "store")
         /\ localStreamRef' = IF ok THEN localStreamRef ELSE None
         /\ trackStops' = IF ok THEN trackStops
                          ELSE stopLocalVideo(localStreamRef, trackStops)
         /\ starts' = [starts EXCEPT ![i] =
               DoneStart(@, IF ok THEN "started" ELSE "SessionCreateFailed")]
    /\ dirty' = mounted
    /\ UNCHANGED <<sessionData, isLoading, sessionDuration, mounted, lastDeps,
                   envVars, clockVars, providerVars, acquired, reports, ends>>

\* The audit insert returns, with or without a row written
\* (useTavusVideo.ts:223-250).  startSession activates the session and
\* starts the timer (useTavusVideo.ts:252-255, 36-44); handleStartSession
\* records the start time (VideoConsultation.tsx:351-366).
StoreDone(i) ==
    /\ ~dirty
    /\ starts[i].pc = "storing"
    /\ \E ok \in BOOLEAN :
         /\ InputIf(~ok)
         /\ video_sessions' =
               IF ok THEN [video_sessions EXCEPT ![starts[i].session] =
                              [present |-> TRUE, ended |-> FALSE,
                               duration_seconds |-> 0]]
               ELSE video_sessions
    /\ isSessionActive' = Set(isSessionActive, TRUE)
    /\ sessionTimerRef' = TRUE
    /\ ticksDue' = 0
    /\ sessionStartTime' = Set(sessionStartTime, now)
    /\ starts' = [starts EXCEPT ![i] = DoneStart(@, "started")]
    /\ dirty' = mounted
    /\ UNCHANGED <<sessionData, isLoading, sessionDuration, error,
                   localStreamRef, mounted, lastDeps, envVars, clockVars,
                   providerVars, deviceVars, reports, ends>>

\* --------------------------------------------------- handleEndSession

\* A handleEndSession invocation that returned: its closure is dropped.
DoneEnd(auto) == [pc |-> "done", sd |-> None, st |-> NoTime, dur |-> 0,
                  auto |-> auto, report |-> "none"]

\* endSession sending the duration update without a session id.
EndFirstAwait_AlwaysUpdates(sd) ==
    IF sd # None /\ tavusApiKey THEN "terminating" ELSE "updating"

\* Where endSession first suspends (useTavusVideo.ts:271, 289): at the
\* terminate request, at the duration update, or nowhere.
EndFirstAwait(sd) ==
    IF sd # None /\ tavusApiKey THEN "terminating"
    ELSE IF sd # None THEN "updating"
    ELSE "done"

\* A call of handleEndSession (VideoConsultation.tsx:374-376) and of
\* endSession up to its first await (useTavusVideo.ts:266-278).  The
\* closures capture sessionData, sessionStartTime and sessionDuration of
\* the current render.  With no session data nothing is awaited: endSession
\* runs through its cleanup (useTavusVideo.ts:311-325) and the handler
\* through its tail (VideoConsultation.tsx:380, 395-408).
CallEnd(auto) ==
    LET pc == EndFirstAwait(sessionData)
    IN  /\ ends' = Append(ends,
              IF pc = "done" THEN DoneEnd(auto)
              ELSE [pc |-> pc, sd |-> sessionData, st |-> sessionStartTime,
                    dur |-> sessionDuration, auto |-> auto,
                    report |-> "none"])
        /\ endRequests' =
              IF pc = "terminating"
              THEN [endRequests EXCEPT ![sessionData] = @ + 1]
              ELSE endRequests
        /\ IF pc = "done"
           THEN /\ localStreamRef' = None
                /\ trackStops' = stopLocalVideo(localStreamRef, trackStops)
                /\ sessionTimerRef' = FALSE
                /\ ticksDue' = 0
                /\ isSessionActive' = Set(isSessionActive, FALSE)
                /\ error' = Set(error, "none")
                /\ isLoading' = Set(isLoading, FALSE)
                /\ sessionStartTime' = Set(sessionStartTime, NoTime)
           ELSE /\ isLoading' = Set(isLoading, TRUE)
                /\ UNCHANGED <<localStreamRef, trackStops, sessionTimerRef,
                               ticksDue, isSessionActive, error,
                               sessionStartTime>>
        /\ sessionData' = IF pc = "done" THEN Set(sessionData, None)
                           ELSE sessionData
        \* history: the starts this call finds in flight past acquisition
        /\ starts' = [i \in 1..Len(starts) |->
              IF starts[i].pc \in {"creating", "waiting", "storing"}
              THEN [starts[i] EXCEPT !.cancelled = TRUE] ELSE starts[i]]

\* The End Session buttons (VideoConsultation.tsx:945, 1027).
HandleEndSession ==
    /\ mounted /\ ~dirty
    /\ Cardinality({j \in 1..Len(ends) : ~ends[j].auto}) < MaxEnds
    /\ CallEnd(FALSE)
    /\ Input
    /\ dirty' = mounted
    /\ UNCHANGED <<sessionDuration, mounted, lastDeps, envVars, clockVars,
                   createRequests, conversations, acquired, storeVars>>

\* The provider answers the terminate request, with any status or a
\* network error (useTavusVideo.ts:273-286); endSession sends the duration
\* update (useTavusVideo.ts:289-299).
TerminateResponse(j) ==
    /\ ~dirty
    /\ ends[j].pc = "terminating"
    /\ UNCHANGED inputs
    /\ ends' = [ends EXCEPT ![j].pc = "updating"]
    /\ UNCHANGED <<hookState, hookRefs, compState, dirty, envVars, clockVars,
                   ticksDue, providerVars, deviceVars, storeVars, starts>>

\* generateReport up to its await (supabase.ts:521-548): it sends the
\* insert unless the store is unreachable.
ReportRequested == isConnectedToSupabase

\* endSession without the inner try/catch around the duration update: a
\* failed update unwinds to the outer catch and skips the cleanup.
UpdateDone_FailureUnwinds(j) ==
    /\ ~dirty
    /\ ends[j].pc = "updating"
    /\ \E ok \in BOOLEAN :
         /\ InputIf(~ok)
         /\ video_sessions' =
               IF ok /\ video_sessions[ends[j].sd].present
               THEN [video_sessions EXCEPT ![ends[j].sd] =
                        [present |-> TRUE, ended |-> TRUE,
                         duration_seconds |-> ends[j].dur]]
               ELSE video_sessions
         /\ localStreamRef' = IF ok THEN None ELSE localStreamRef
         /\ trackStops' = IF ok THEN stopLocalVideo(localStreamRef, trackStops)
                          ELSE trackStops
         /\ sessionTimerRef' = (~ok /\ sessionTimerRef)
         /\ ticksDue' = IF ok THEN 0 ELSE ticksDue
         /\ isSessionActive' = IF ok THEN Set(isSessionActive, FALSE)
                               ELSE isSessionActive
         /\ sessionData' = IF ok THEN Set(sessionData, None) ELSE sessionData
         /\ error' = IF ok THEN Set(error, "none") ELSE error
    /\ isLoading' = Set(isLoading, FALSE)
    /\ ends' = [ends EXCEPT ![j] = DoneEnd(@.auto)]
    /\ sessionStartTime' = Set(sessionStartTime, NoTime)
    /\ dirty' = mounted
    /\ UNCHANGED <<sessionDuration, mounted, lastDeps, envVars, clockVars,
                   providerVars, acquired, reports, starts>>

\* The duration update returns (useTavusVideo.ts:291-309); endSession
\* cleans up (useTavusVideo.ts:311-325) and handleEndSession goes on to the
\* report (VideoConsultation.tsx:380-393) or to its tail
\* (VideoConsultation.tsx:395-408).
UpdateDone(j) ==
    /\ ~dirty
    /\ ends[j].pc = "updating"
    /\ \E ok \in BOOLEAN :
         /\ InputIf(~ok)
         /\ video_sessions' =
               IF ok /\ video_sessions[ends[j].sd].present
               THEN [video_sessions EXCEPT ![ends[j].sd] =
                        [present |-> TRUE, ended |-> TRUE,
                         duration_seconds |-> ends[j].dur]]
               ELSE video_sessions
    /\ localStreamRef' = None
    /\ trackStops' = stopLocalVideo(localStreamRef, trackStops)
    /\ sessionTimerRef' = FALSE
    /\ ticksDue' = 0
    /\ isSessionActive' = Set(isSessionActive, FALSE)
    /\ sessionData' = Set(sessionData, None)
    /\ error' = Set(error, "none")
    /\ isLoading' = Set(isLoading, FALSE)
    /\ IF ends[j].sd # None /\ ends[j].st # NoTime /\ ReportRequested
       THEN /\ ends' = [ends EXCEPT ![j].pc = "reporting"]
            /\ UNCHANGED sessionStartTime
       ELSE /\ ends' = [ends EXCEPT ![j] = DoneEnd(@.auto)]
            /\ sessionStartTime' = Set(sessionStartTime, NoTime)
    /\ dirty' = mounted
    /\ UNCHANGED <<sessionDuration, mounted, lastDeps, envVars, clockVars,
                   providerVars, acquired, reports, starts>>

\* generateReport letting the failure of its insert out: handleEndSession
\* catches it and skips its tail.
ReportDone_FailureUnwinds(j) ==
    /\ ~dirty
    /\ ends[j].pc = "reporting"
    /\ \E ok \in BOOLEAN :
         /\ InputIf(~ok)
         /\ reports' = IF ok THEN [reports EXCEPT ![ends[j].sd] = @ + 1]
                       ELSE reports
         /\ ends' = [ends EXCEPT ![j] =
                       [DoneEnd(@.auto) EXCEPT
                          !.report = IF ok THEN "written" ELSE "failed"]]
         /\ sessionStartTime' = IF ok THEN Set(sessionStartTime, NoTime)
                                ELSE sessionStartTime
    /\ dirty' = mounted
    /\ UNCHANGED <<hookState, hookRefs, mounted, lastDeps, envVars, clockVars,
                   ticksDue, providerVars, deviceVars, video_sessions, starts>>

\* The report insert returns (supabase.ts:543-573): a row is written or the
\* failure is caught; handleEndSession runs its tail
\* (VideoConsultation.tsx:395-408).  The record of the call keeps what
\* became of the report.
ReportDone(j) ==
    /\ ~dirty
    /\ ends[j].pc = "reporting"
    /\ \E ok \in BOOLEAN :
         /\ InputIf(~ok)
         /\ reports' = IF ok THEN [reports EXCEPT ![ends[j].sd] = @ + 1]
                       ELSE reports
         /\ ends' = [ends EXCEPT ![j] =
                       [DoneEnd(@.auto) EXCEPT
                          !.report = IF ok THEN "written" ELSE "failed"]]
    /\ sessionStartTime' = Set(sessionStartTime, NoTime)
    /\ dirty' = mounted
    /\ UNCHANGED <<hookState, hookRefs, mounted, lastDeps, envVars, clockVars,
                   ticksDue, providerVars, deviceVars, video_sessions, starts>>

\* ------------------------------------------------ rendering and time

\* A render of VideoConsultation and its auto-end effect
\* (VideoConsultation.tsx:575-580): the effect runs when one of its
\* dependencies changed, and calls handleEndSession when the condition
\* holds.
Render ==
    /\ dirty
    /\ UNCHANGED inputs
    /\ LET remaining == timeRemaining(sessionStartTime, isSessionActive, now)
           deps == <<remaining, isSessionActive, sessionStartTime>>
       IN  /\ lastDeps' = deps
           /\ IF deps # lastDeps
                 /\ AutoEndCondition(isSessionActive, sessionStartTime, remaining)
              THEN /\ CallEnd(TRUE)
                   /\ dirty' = TRUE
              ELSE /\ dirty' = FALSE
                   /\ UNCHANGED <<hookState, hookRefs, sessionStartTime,
                                  ticksDue, endRequests, trackStops, starts,
                                  ends>>
    /\ UNCHANGED <<sessionDuration, mounted, envVars, clockVars,
                   createRequests, conversations, acquired, storeVars>>

\* Something waits for the clock: the interval of startTimer, a retry
\* delay, or the ceiling of a session.
TimerArmed ==
    \/ sessionTimerRef
    \/ isSessionActive
    \/ \E i \in 1..Len(starts) : starts[i].pc = "waiting"

\* Time passes until the event loop runs again.  An armed interval
\* (useTavusVideo.ts:41-43) owes one callback per period that went by; a
\* host that was suspended delivers only one.
ClockAdvance ==
    /\ ~dirty /\ ticksDue = 0
    /\ TimerArmed
    /\ Input
    /\ \E d \in ClockSteps :
          /\ now' = now + d
          /\ ticksDue' \in (IF sessionTimerRef
                            THEN {d \div TimerPeriod, 1} ELSE {0})
    /\ UNCHANGED <<hookState, hookRefs, compState, dirty, envVars,
                   providerVars, deviceVars, storeVars, starts, ends>>

\* The interval callbacks of startTimer that are due (useTavusVideo.ts:41-43).
TimerFire ==
    /\ ~dirty /\ ticksDue > 0
    /\ UNCHANGED inputs
    /\ sessionDuration' = Set(sessionDuration, sessionDuration + ticksDue)
    /\ ticksDue' = 0
    /\ dirty' = mounted
    /\ UNCHANGED <<isSessionActive, sessionData, isLoading, error, hookRefs,
                   compState, envVars, clockVars, providerVars, deviceVars,
                   storeVars, starts, ends>>

\* The component unmounts: the cleanup of the hook runs
\* (useTavusVideo.ts:346-352).  Its React state is gone; the variables keep
\* the last values.
Unmount ==
    /\ mounted /\ ~dirty
    /\ Input
    /\ mounted' = FALSE
    /\ localStreamRef' = None
    /\ trackStops' = stopLocalVideo(localStreamRef, trackStops)
    /\ sessionTimerRef' = FALSE
    /\ ticksDue' = 0
    /\ UNCHANGED <<hookState, sessionStartTime, lastDeps, dirty, envVars,
                   clockVars, providerVars, acquired, storeVars, starts, ends>>

Next ==
    \/ HandleStartSession
    \/ \E i \in 1..Len(starts) : AcquireOk(i)
    \/ \E i \in 1..Len(starts) : AcquireFail(i)
    \/ \E i \in 1..Len(starts) : CreateResponse(i)
    \/ \E i \in 1..Len(starts) : RetryWake(i)
    \/ \E i \in 1..Len(starts) : StoreDone(i)
    \/ HandleEndSession
    \/ \E j \in 1..Len(ends) : TerminateResponse(j)
    \/ \E j \in 1..Len(ends) : UpdateDone(j)
    \/ \E j \in 1..Len(ends) : ReportDone(j)
    \/ Render
    \/ ClockAdvance
    \/ TimerFire
    \/ Unmount

Spec == Init /\ [][Next]_vars

\* ------------------------------------------- useTaskNotifications

\* Everything the reminder hook leaves alone.
sessionVars == <<hookState, hookRefs, compState, dirty, tavusApiKey, keyValid,
                 isOnline, isConnectedToSupabase, clockVars, inputs, ticksDue,
                 providerVars, deviceVars, storeVars, starts, ends, writes>>

Tasks == 1..MaxTasks

NoDue == 0 - 1          \* dueDate absent

\* The instants scheduling runs at: 14:00 and 23:00 of day 0, 01:00 and
\* 08:00 of day 1.
ScheduleTimes == {14 * 60, 23 * 60, Day + 60, Day + 8 * 60}

\* Due dates: 12:00 and 22:30 of day 0, 02:30 and 10:00 of day 1.
DueDates == {12 * 60, 22 * 60 + 30, Day + 2 * 60 + 30, Day + 10 * 60}

\* Quiet hours: the overnight default, a same-day window, and a window
\* whose start is its end.
QuietWindows == {<<22 * 60, 8 * 60>>, <<12 * 60, 14 * 60>>,
                 <<23 * 60, 23 * 60>>}

SettingsChoices ==
    { [enabled |-> e, reminderMinutes |-> 30, overdueEnabled |-> o,
       completionReminders |-> c,
       quietHours |-> [enabled |-> q, start |-> w[1], end |-> w[2]]] :
      e \in BOOLEAN, o \in BOOLEAN, c \in BOOLEAN, q \in BOOLEAN,
      w \in QuietWindows }

\* The local time of day of an instant.  The code compares zero-padded
\* "HH:MM" strings (supabase.ts:767), which order as the minutes do.
TimeOfDay(t) == t % Day

\* isQuietHours (supabase.ts:763-778) evaluated at instant t
isQuietHours(s, t) ==
    LET start == s.quietHours.start
        end == s.quietHours.end
        currentTime == TimeOfDay(t)
    IN  IF ~s.quietHours.enabled THEN FALSE
        ELSE IF start > end
        THEN currentTime >= start \/ currentTime <= end
        ELSE currentTime >= start /\ currentTime <= end

\* Every kind anchored to the due date.
RawFireTime_FromDue(kind, dueDate, s, t) ==
    CASE kind = "reminder" -> dueDate - s.reminderMinutes
      [] kind = "overdue" -> dueDate + OverdueDelay
      [] kind = "completion_reminder" -> dueDate + CompletionDelay

\* The fire time before the quiet-hours adjustment (supabase.ts:794-815)
RawFireTime(kind, dueDate, s, t) ==
    CASE kind = "reminder" -> dueDate - s.reminderMinutes
      [] kind = "overdue" -> dueDate + OverdueDelay
      [] kind = "completion_reminder" -> t + CompletionDelay

\* quietEnd (supabase.ts:825-827): the end of quiet hours on the date of
\* the scheduling instant t.
quietEnd(s, t) == (t \div Day) * Day + s.quietHours.end

\* The comparison turned round: inside quiet hours a fire time after
\* today's end of quiet hours is pulled back to it.
AdjustForQuietHours_Flipped(scheduledFor, s, t) ==
    IF isQuietHours(s, t) /\ scheduledFor > quietEnd(s, t)
    THEN quietEnd(s, t) ELSE scheduledFor

\* The adjustment without its comparison: inside quiet hours every fire
\* time becomes today's end of quiet hours.
AdjustForQuietHours_Always(scheduledFor, s, t) ==
    IF isQuietHours(s, t) THEN quietEnd(s, t) ELSE scheduledFor

\* The quiet-hours adjustment (supabase.ts:823-833)
AdjustForQuietHours(scheduledFor, s, t) ==
    IF isQuietHours(s, t) /\ scheduledFor < quietEnd(s, t)
    THEN quietEnd(s, t) ELSE scheduledFor

\* The flag scheduleAllTaskNotifications reads for a kind
\* (supabase.ts:892-905)
KindEnabled(kind, s) ==
    CASE kind = "reminder" -> s.enabled
      [] kind = "overdue" -> s.overdueEnabled
      [] kind = "completion_reminder" -> s.completionReminders

\* The completion check left out, the overdue alert scheduled twice.
KindOrder_NoCompletion == <<"reminder", "overdue", "overdue">>

\* The order of the calls in scheduleAllTaskNotifications
\* (supabase.ts:890-905)
KindOrder == <<"reminder", "overdue", "completion_reminder">>

\* scheduleTaskNotification up to its insert (supabase.ts:781-850) for
\* the kinds scheduleAllTaskNotifications calls it for: it returns early
\* with the hook disabled, the store unreachable, or a fire time that is
\* not in the future.
Requests(task, dueDate, s, t) ==
    LET req(n) ==
           LET raw == RawFireTime(KindOrder[n], dueDate, s, t)
           IN  [call |-> Len(scheduleCalls) + 1,
                task |-> task, kind |-> KindOrder[n], dueDate |-> dueDate,
                raw |-> raw,
                scheduled_for |-> AdjustForQuietHours(raw, s, t),
                at |-> t, pc |-> "inserting"]
        sent(r) == /\ KindEnabled(r.kind, s)
                   /\ s.enabled /\ isConnectedToSupabase
                   /\ r.raw > t
    IN  SelectSeq([n \in 1..3 |-> req(n)], sent)

\* The guard gone: every call schedules.
ShouldSchedule_Always(reminderEnabled, dueDate) == TRUE

\* The guard of scheduleAllTaskNotifications (supabase.ts:888)
ShouldSchedule(reminderEnabled, dueDate) ==
    reminderEnabled /\ dueDate # NoDue

\* scheduleAllTaskNotifications (supabase.ts:882-908) up to the awaits of
\* the inserts it starts, as one of at most limit calls.  scheduleCalls
\* keeps the arguments of each call.
ScheduleAll(limit) ==
    /\ Len(scheduleCalls) < limit
    /\ \E task \in Tasks, dueDate \in DueDates \cup {NoDue},
          reminderEnabled \in BOOLEAN :
          /\ scheduleCalls' = Append(scheduleCalls,
                 [task |-> task, dueDate |-> dueDate,
                  reminderEnabled |-> reminderEnabled, at |-> clock])
          /\ scheduling' =
                IF ShouldSchedule(reminderEnabled, dueDate)
                THEN scheduling \o Requests(task, dueDate, settings, clock)
                ELSE scheduling
    /\ UNCHANGED <<settingsVars, listVars, clock, cancelling, loading,
                   hookCalls, sessionVars>>

ScheduleAllTaskNotifications == ScheduleAll(MaxSchedules)

\* A failed insert rejects the whole call: the inserts of the other
\* kinds of the call are given up.
InsertDone_FailureAbortsCall(k) ==
    /\ scheduling[k].pc = "inserting"
    /\ \E ok \in BOOLEAN :
         LET r == scheduling[k]
             row == [id |-> k, task_id |-> r.task,
                     notification_type |-> r.kind,
                     scheduled_for |-> r.scheduled_for, sent |-> FALSE]
         IN  IF ok
             THEN /\ task_notifications' = Append(task_notifications, row)
                  /\ notifications' = Append(notifications, row)
                  /\ armed' = Append(armed, [task_id |-> r.task,
                                             at |-> r.scheduled_for,
                                             cancelled |-> FALSE])
                  /\ scheduling' = [scheduling EXCEPT ![k].pc = "saved"]
             ELSE /\ scheduling' =
                        [j \in 1..Len(scheduling) |->
                           IF scheduling[j].call = r.call
                                 /\ scheduling[j].pc = "inserting"
                           THEN [scheduling[j] EXCEPT !.pc = "failed"]
                           ELSE scheduling[j]]
                  /\ UNCHANGED <<task_notifications, notifications, armed>>
    /\ UNCHANGED <<settingsVars, clock, scheduleCalls, cancelling, loading,
                   hookCalls, sessionVars>>

\* The browser delivery armed before the outcome of the insert is known.
InsertDone_ArmsFirst(k) ==
    /\ scheduling[k].pc = "inserting"
    /\ \E ok \in BOOLEAN :
         LET r == scheduling[k]
             row == [id |-> k, task_id |-> r.task,
                     notification_type |-> r.kind,
                     scheduled_for |-> r.scheduled_for, sent |-> FALSE]
         IN  /\ armed' = Append(armed, [task_id |-> r.task,
                                        at |-> r.scheduled_for,
                                        cancelled |-> FALSE])
             /\ IF ok
                THEN /\ task_notifications' = Append(task_notifications, row)
                     /\ notifications' = Append(notifications, row)
                     /\ scheduling' = [scheduling EXCEPT ![k].pc = "saved"]
                ELSE /\ scheduling' = [scheduling EXCEPT ![k].pc = "failed"]
                     /\ UNCHANGED <<task_notifications, notifications>>
    /\ UNCHANGED <<settingsVars, clock, scheduleCalls, cancelling, loading,
                   hookCalls, sessionVars>>

\* The insert of a notification returns (supabase.ts:845-878): with a
\* row, which joins the list in memory and gets its browser delivery
\* armed, or with a failure.
InsertDone(k) ==
    /\ scheduling[k].pc = "inserting"
    /\ \E ok \in BOOLEAN :
         LET r == scheduling[k]
             row == [id |-> k, task_id |-> r.task,
                     notification_type |-> r.kind,
                     scheduled_for |-> r.scheduled_for, sent |-> FALSE]
         IN  IF ok
             THEN /\ task_notifications' = Append(task_notifications, row)
                  /\ notifications' = Append(notifications, row)
                  /\ armed' = Append(armed, [task_id |-> r.task,
                                             at |-> r.scheduled_for,
                                             cancelled |-> FALSE])
                  /\ scheduling' = [scheduling EXCEPT ![k].pc = "saved"]
             ELSE /\ scheduling' = [scheduling EXCEPT ![k].pc = "failed"]
                  /\ UNCHANGED <<task_notifications, notifications, armed>>
    /\ UNCHANGED <<settingsVars, clock, scheduleCalls, cancelling, loading,
                   hookCalls, sessionVars>>

\* Time passes to a later scheduling instant.
Tick ==
    /\ \E t \in ScheduleTimes : t > clock /\ clock' = t
    /\ UNCHANGED <<settingsVars, listVars, scheduling, scheduleCalls,
                   cancelling, loading, hookCalls, sessionVars>>

\* The rows of the task that a cancellation deletes (supabase.ts:917-921)
Unsent(row, task) == row.task_id = task /\ ~row.sent

\* cancelTaskNotifications (supabase.ts:911-916) up to the await of its
\* delete; it returns at once with the store unreachable.
CancelTaskNotifications ==
    /\ hookCalls < MaxHookCalls
    /\ hookCalls' = hookCalls + 1
    /\ \E task \in Tasks :
          cancelling' = Append(cancelling,
             [task |-> task, deleted |-> FALSE,
              pc |-> IF isConnectedToSupabase THEN "deleting" ELSE "returned"])
    /\ UNCHANGED <<settingsVars, listVars, clock, scheduling, scheduleCalls,
                   loading, sessionVars>>

\* The list in memory after cancelTaskNotifications filtered it
\* (supabase.ts:929)
FilterCancelled(list, task) ==
    SelectSeq(list, LAMBDA n : n.task_id # task \/ n.sent)

\* The delete of cancelTaskNotifications returns (supabase.ts:916-934):
\* done, and the list in memory is filtered; with an error, and the catch
\* leaves the list alone; or with an expired-token error, which
\* handleSupabaseError takes care of (supabase.ts:924-925), so that nothing
\* is thrown and the list is filtered although no row was deleted.
DeleteDone(j) ==
    /\ cancelling[j].pc = "deleting"
    /\ \E outcome \in {"deleted", "error", "jwt"} :
         LET task == cancelling[j].task
         IN  /\ task_notifications' =
                   IF outcome = "deleted"
                   THEN SelectSeq(task_notifications,
                                  LAMBDA row : ~Unsent(row, task))
                   ELSE task_notifications
             /\ notifications' =
                   IF outcome = "error" THEN notifications
                   ELSE FilterCancelled(notifications, task)
             /\ cancelling' =
                   [cancelling EXCEPT
                      ![j].pc = IF outcome = "error" THEN "failed" ELSE "done",
                      ![j].deleted = (outcome = "deleted")]
    /\ UNCHANGED <<settingsVars, armed, clock, scheduling, scheduleCalls,
                   loading, hookCalls, sessionVars>>

\* The sender outside this code delivers a notification that is due and
\* flips the sent column of its row (supabase.ts:723); the copy in memory
\* keeps the value it was loaded with.
MarkSent(n) ==
    /\ ~task_notifications[n].sent
    /\ task_notifications[n].scheduled_for <= clock
    /\ task_notifications' = [task_notifications EXCEPT ![n].sent = TRUE]
    /\ UNCHANGED <<settingsVars, notifications, armed, clock, scheduling,
                   scheduleCalls, cancelling, loading, hookCalls, sessionVars>>

\* The rows in the order of the select of loadNotifications
\* (supabase.ts:1019-1023): latest fire time first; rows with equal fire
\* times are taken by descending id.  The limit of 50 rows is above what
\* the bounds let the table hold.
RECURSIVE SortDescending(_)
SortDescending(rows) ==
    IF rows = {} THEN <<>>
    ELSE LET top == CHOOSE r \in rows :
                       \A q \in rows :
                          \/ r.scheduled_for > q.scheduled_for
                          \/ /\ r.scheduled_for = q.scheduled_for
                             /\ r.id >= q.id
         IN  <<top>> \o SortDescending(rows \ {top})

\* loadNotifications (supabase.ts:1012-1018) up to the await of its
\* select; it returns at once with the store unreachable.
LoadNotifications ==
    /\ hookCalls < MaxHookCalls
    /\ hookCalls' = hookCalls + 1
    /\ loading' = IF isConnectedToSupabase THEN loading + 1 ELSE loading
    /\ UNCHANGED <<settingsVars, listVars, clock, scheduling, scheduleCalls,
                   cancelling, sessionVars>>

\* The select of loadNotifications returns (supabase.ts:1025-1036): with
\* the rows, which replace the list in memory, or with an error.
LoadDone ==
    /\ loading > 0
    /\ loading' = loading - 1
    /\ \E ok \in BOOLEAN :
          notifications' =
             IF ok
             THEN SortDescending({task_notifications[n] :
                                    n \in 1..Len(task_notifications)})
             ELSE notifications
    /\ UNCHANGED <<settingsVars, task_notifications, armed, clock, scheduling,
                   scheduleCalls, cancelling, hookCalls, sessionVars>>

\* The merged settings { ...settings, ...newSettings } of saveSettings
\* (supabase.ts:974-978) for the partial settings passed here: quiet hours
\* switched, another quiet window, or notifications switched.
SettingsEdits(s) ==
    {[s EXCEPT !.quietHours.enabled = ~@], [s EXCEPT !.enabled = ~@]}
       \cup {[s EXCEPT !.quietHours.start = w[1], !.quietHours.end = w[2]] :
               w \in QuietWindows \ {<<s.quietHours.start, s.quietHours.end>>}}

\* Saving applies the quiet hours just set to the notifications held in
\* memory.
SaveSettings_Reschedules ==
    /\ hookCalls < MaxHookCalls
    /\ hookCalls' = hookCalls + 1
    /\ \E updatedSettings \in SettingsEdits(settings) :
          IF isConnectedToSupabase
          THEN /\ settings' = updatedSettings
               /\ saving' = Append(saving, [updatedSettings |-> updatedSettings,
                                            pc |-> "upserting"])
               /\ notifications' =
                     [n \in 1..Len(notifications) |->
                        [notifications[n] EXCEPT !.scheduled_for =
                           AdjustForQuietHours(@, updatedSettings, clock)]]
          ELSE UNCHANGED <<settings, saving, notifications>>
    /\ UNCHANGED <<task_notification_settings, task_notifications, armed,
                   clock, scheduling, scheduleCalls, cancelling, loading,
                   sessionVars>>

\* saveSettings (supabase.ts:974-980) up to the await of its upsert: the
\* state is set before the row is written.  It returns at once with the
\* store unreachable.
SaveSettings ==
    /\ hookCalls < MaxHookCalls
    /\ hookCalls' = hookCalls + 1
    /\ \E updatedSettings \in SettingsEdits(settings) :
          IF isConnectedToSupabase
          THEN /\ settings' = updatedSettings
               /\ saving' = Append(saving, [updatedSettings |-> updatedSettings,
                                            pc |-> "upserting"])
          ELSE UNCHANGED <<settings, saving>>
    /\ UNCHANGED <<task_notification_settings, listVars, clock, scheduling,
                   scheduleCalls, cancelling, loading, sessionVars>>

\* The upsert of saveSettings returns (supabase.ts:981-1008): the row is
\* written, or it is not and the state stays as it was set.
UpsertDone(j) ==
    /\ saving[j].pc = "upserting"
    /\ \E ok \in BOOLEAN :
          IF ok
          THEN /\ task_notification_settings' = saving[j].updatedSettings
               /\ saving' = [saving EXCEPT ![j].pc = "done"]
          ELSE /\ saving' = [saving EXCEPT ![j].pc = "failed"]
               /\ UNCHANGED task_notification_settings
    /\ UNCHANGED <<settings, listVars, clock, scheduling, scheduleCalls,
                   cancelling, loading, hookCalls, sessionVars>>

\* A signed-in user with some settings, at some time, the store reachable
\* or not.
RemindInit ==
    /\ SessionInit
    /\ tavusApiKey /\ keyValid /\ isOnline
    /\ settings \in SettingsChoices
    /\ task_notification_settings = settings
    /\ clock \in ScheduleTimes
    /\ NothingScheduled

RemindNext ==
    \/ ScheduleAllTaskNotifications
    \/ \E k \in 1..Len(scheduling) : InsertDone(k)
    \/ Tick
    \/ CancelTaskNotifications
    \/ \E j \in 1..Len(cancelling) : DeleteDone(j)
    \/ \E n \in 1..Len(task_notifications) : MarkSent(n)
    \/ LoadNotifications
    \/ LoadDone
    \/ SaveSettings
    \/ \E j \in 1..Len(saving) : UpsertDone(j)

RemindSpec == RemindInit /\ [][RemindNext]_vars

\* A task is created and then edited: scheduleAllTaskNotifications is
\* called again while or after the inserts of the earlier call run.  The
\* user has every kind enabled and the store is reachable; it is 14:00.
RescheduleInit ==
    /\ SessionInit
    /\ tavusApiKey /\ keyValid /\ isOnline /\ isConnectedToSupabase
    /\ settings \in {s \in SettingsChoices :
                       s.enabled /\ s.overdueEnabled /\ s.completionReminders}
    /\ task_notification_settings = settings
    /\ clock = 14 * 60
    /\ NothingScheduled

RescheduleCall == ScheduleAll(MaxReschedules)

RescheduleNext ==
    \/ RescheduleCall
    \/ \E k \in 1..Len(scheduling) : InsertDone(k)

RescheduleSpec == RescheduleInit /\ [][RescheduleNext]_vars

\* ------------------------------------------------------------ claims

InFlight(i) == starts[i].pc \in {"acquiring", "creating", "waiting", "storing"}

InFlightStarts == {i \in 1..Len(starts) : InFlight(i)}

Streams == 1..acquired

\* C1: at no time is more than one session acquiring, creating or active:
\* of two start() calls issued before the first finished, only one goes
\* on to the provider.
C1_AtMostOneSession ==
    Cardinality(InFlightStarts) + (IF isSessionActive THEN 1 ELSE 0) <= 1

\* C2: no stream is stopped twice, every stream that is still live is the
\* one the orchestrator holds (none was overwritten while live), and once
\* nothing is in flight and no session is active every stream has been
\* stopped exactly once.
C2_ReleasedExactlyOnce ==
    /\ \A h \in Streams : trackStops[h] <= 1
    /\ \A h \in Streams : trackStops[h] = 0 => localStreamRef = h
    /\ (InFlightStarts = {} /\ ~isSessionActive)
          => \A h \in Streams : trackStops[h] = 1

\* The event loop has run everything that was due.
Settled == ~dirty /\ ticksDue = 0

C4_CeilingWithoutObserver ==
    (Len(starts) = 1 /\ Settled /\ isSessionActive /\ sessionData # None
        /\ sessionStartTime # NoTime
        /\ now >= sessionStartTime + maxSessionTime + TimerPeriod)
       => endRequests[sessionData] >= 1

\* C5: once end() was called while a start() was creating its session,
\* that start() makes no further createSession attempt and does not
\* activate the session.
C5_StartObservesCancel ==
    [][\A i \in 1..Len(starts) :
          starts[i].cancelled
             => /\ starts'[i].attempts = starts[i].attempts
                /\ starts'[i].result = "started"
                      => starts[i].result = "started"]_vars

\* C6: once a terminate request has been sent for a session that is
\* Active or already ended, a further end() sends no second one, and no
\* stream is released twice.
C6_EndIdempotent ==
    [][/\ \A s \in Sids :
             (endRequests[s] >= 1 /\ (sessionData = s => isSessionActive))
                => endRequests'[s] = endRequests[s]
       /\ \A h \in Handles : trackStops'[h] <= 1]_vars

\* C7: at most one report row per session id.
C7_OneReportPerSession == \A s \in Sids : reports[s] <= 1

\* C8: a start() that got the 'already has an active conversation'
\* conflict has ended after that single attempt, without a retry delay.
C8_ConflictNotRetried ==
    \A i \in 1..Len(starts) :
       starts[i].lastResp = "conflict400"
          => /\ starts[i].pc = "done"
             /\ starts[i].result = "SessionCreateFailed"
             /\ starts[i].attempts = 1
             /\ starts[i].waits = 0

\* C9: a start() makes at most maxRetries createSession attempts, none
\* after a success or after it returned; every attempt but the first
\* follows one delay of RetryDelay seconds; no delay follows the last
\* failure.
C9_BoundedRetries ==
    [][\A i \in 1..Len(starts) :
          LET s == starts[i]
              n == starts'[i]
          IN  /\ n.attempts <= maxRetries
              /\ n.attempts \in {s.attempts, s.attempts + 1}
              /\ n.waits \in {s.waits, s.waits + 1}
              /\ n.attempts > s.attempts
                    => /\ s.session = None /\ s.pc # "done"
                       /\ s.attempts > 0
                             => /\ s.pc = "waiting" /\ now >= s.wakeAt
                                /\ s.waits = s.attempts
              /\ n.waits > s.waits
                    => /\ n.pc = "waiting"
                       /\ n.wakeAt = now + RetryDelay
                       /\ n.session = None
                       /\ n.attempts < maxRetries
              /\ n.waits = (IF n.pc = "waiting" THEN n.attempts
                            ELSE IF n.attempts = 0 THEN 0
                            ELSE n.attempts - 1)]_vars

C9_Witness ==
    \E i \in 1..Len(starts) :
       /\ starts[i].attempts = maxRetries
       /\ starts[i].waits = maxRetries - 1
       /\ createRequests = maxRetries
       /\ now >= 2 * RetryDelay

\* C10: when getUserMedia fails (a start() leaves the acquisition and the
\* devices handed out no stream), start() returns false having sent no
\* createSession request and having touched neither the stream nor the
\* session state; called from Idle with nothing else in flight, it
\* leaves the orchestrator Idle with no stream held.
C10_MediaFailure ==
    [][\A i \in 1..Len(starts) :
          (starts[i].pc = "acquiring" /\ starts'[i].pc # "acquiring"
              /\ acquired' = acquired)
             => /\ starts'[i].pc = "done"
                /\ starts'[i].result = "MediaUnavailable"
                /\ starts'[i].attempts = 0
                /\ starts'[i].session = None
                /\ UNCHANGED <<isSessionActive, sessionData, localStreamRef,
                               sessionTimerRef, createRequests, acquired,
                               trackStops>>
                /\ (Len(starts) = 1 /\ Len(ends) = 0)
                      => /\ ~isSessionActive' /\ localStreamRef' = None
                         /\ createRequests' = 0 /\ sessionData' = None]_vars

C10_Witness ==
    \E i \in 1..Len(starts) :
       /\ starts[i].result = "MediaUnavailable"
       /\ ~isSessionActive /\ localStreamRef = None /\ createRequests = 0

\* No other start() is in flight beside start i.
OnlyStart(i) == \A k \in 1..Len(starts) : k # i => ~InFlight(k)

\* No stream is live beside the one the orchestrator holds.
NoLeak == \A h \in Streams : trackStops[h] = 0 => localStreamRef = h

C12_EndAlwaysCleansUp ==
    [][\A j \in 1..Len(ends) :
          (ends[j].pc = "updating" /\ ends'[j].pc # "updating")
             => /\ localStreamRef' = None
                /\ localStreamRef # None => trackStops'[localStreamRef] = 1
                /\ ~sessionTimerRef' /\ ticksDue' = 0
                /\ mounted => /\ ~isSessionActive'
                              /\ sessionData' = None
                              /\ ~isLoading']_vars

\* An end() of an active session is over, its duration write failed (the
\* row is there and not marked ended), and everything is released.
C12_Witness ==
    /\ mounted /\ Len(starts) = 1 /\ starts[1].result = "started"
    /\ endRequests[1] = 1
    /\ \A j \in 1..Len(ends) : ends[j].pc \in {"reporting", "done"}
    /\ video_sessions[1].present /\ ~video_sessions[1].ended
    /\ acquired = 1 /\ trackStops[1] = 1 /\ localStreamRef = None
    /\ ~sessionTimerRef /\ ~isSessionActive /\ sessionData = None

\* An end() whose terminate request or duration write has not returned.
EndInFlight(j) == ends[j].pc \in {"terminating", "updating"}

\* C13: a start() called while the session is active returns
\* AlreadyActive at once and changes nothing: no stream is acquired, no
\* request sent, and the session data, the stream held and the timer are
\* as before.
C13_StartWhileActive ==
    [][(Len(starts') = Len(starts) + 1 /\ isSessionActive)
          => /\ starts'[Len(starts')].pc = "done"
             /\ starts'[Len(starts')].result = "AlreadyActive"
             /\ starts'[Len(starts')].attempts = 0
             /\ UNCHANGED <<hookState, hookRefs, compState, providerVars,
                            deviceVars, storeVars, ticksDue, ends>>]_vars

C13_Witness ==
    /\ isSessionActive /\ sessionTimerRef
    /\ sessionData # None /\ localStreamRef # None
    /\ \E i \in 1..Len(starts) : starts[i].result = "AlreadyActive"
    /\ acquired = 1 /\ createRequests = 1

\* C14: a start() issued (with the Start button enabled: nothing loading)
\* while an end() of a session that was active is still waiting for the
\* provider or for the duration write is rejected: it acquires no stream
\* and sends no request.
C14_StartWaitsForEnd ==
    [][(Len(starts') = Len(starts) + 1 /\ ~isLoading
          /\ \E j \in 1..Len(ends) : EndInFlight(j) /\ ends[j].st # NoTime)
          => /\ starts'[Len(starts')].pc = "done"
             /\ UNCHANGED <<providerVars, deviceVars>>]_vars

\* C15: the duration an end() of the active session takes with it, which
\* endSession writes to the session row and handleEndSession passes to
\* the report, is now - sessionStartTime, however many timer callbacks
\* were delivered (none being still due).
C15_DurationFromClock ==
    [][(Len(ends') = Len(ends) + 1 /\ ticksDue = 0
          /\ isSessionActive /\ sessionData # None
          /\ sessionStartTime # NoTime)
          => ends'[Len(ends')].dur = now - sessionStartTime]_vars

\* C16: while the session is active (the component mounted) the
\* orchestrator holds a stream that has not been stopped and a session id.
C16_ActiveHoldsResources ==
    (mounted /\ isSessionActive)
       => /\ localStreamRef # None
          /\ trackStops[localStreamRef] = 0
          /\ sessionData # None

\* C17: when the audit insert of a start() returns, with a row written or
\* not, start() succeeds: the session becomes active (the component
\* mounted) with the start time taken, the timer runs, and the stream
\* held is neither stopped nor dropped.
C17_AuditFailureNotFatal ==
    [][\A i \in 1..Len(starts) :
          (starts[i].pc = "storing" /\ starts'[i].pc # "storing")
             => /\ starts'[i].pc = "done"
                /\ starts'[i].result = "started"
                /\ sessionTimerRef'
                /\ mounted => isSessionActive' /\ sessionStartTime' = now
                /\ UNCHANGED <<localStreamRef, trackStops, sessionData>>]_vars

\* A session is active without its audit row.
C17_Witness ==
    /\ mounted /\ isSessionActive /\ sessionTimerRef
    /\ sessionData # None /\ ~video_sessions[sessionData].present
    /\ localStreamRef # None /\ trackStops[localStreamRef] = 0
    /\ \E i \in 1..Len(starts) :
          starts[i].result = "started" /\ starts[i].session = sessionData

\* The orchestrator is idle: no session, no stream, no timer, and no
\* start() or end() in flight.
Idle ==
    /\ ~isSessionActive /\ sessionData = None
    /\ localStreamRef = None /\ ~sessionTimerRef
    /\ InFlightStarts = {}
    /\ \A j \in 1..Len(ends) : ends[j].pc = "done"

\* C18: an end() called while the orchestrator is idle returns at once
\* and does nothing: no terminate request, no write to the store, no
\* track stopped, and the orchestrator is idle afterwards.
C18_EndWhileIdle ==
    [][(Len(ends') = Len(ends) + 1 /\ Idle)
          => /\ ends'[Len(ends')].pc = "done"
             /\ UNCHANGED <<isSessionActive, sessionData, sessionDuration,
                            hookRefs, providerVars, deviceVars, storeVars,
                            ticksDue, starts>>
             /\ Idle']_vars

\* A session has fully ended and a second end() was called after it: one
\* terminate request, one stop of the stream, at most one report.
C18_Witness ==
    /\ Idle /\ mounted
    /\ Len(starts) = 1 /\ starts[1].result = "started"
    /\ Len(ends) = 2
    /\ endRequests[1] = 1 /\ trackStops[1] = 1 /\ reports[1] <= 1
    /\ video_sessions[1].ended

\* The adjustment as stated for the computed instant alone: inside the
\* window [start, end), which wraps midnight when start > end, the
\* next occurrence of end; otherwise the instant itself.
InQuietWindow(tod, qh) ==
    IF qh.start > qh.end THEN tod >= qh.start \/ tod < qh.end
    ELSE qh.start <= tod /\ tod < qh.end

NextQuietEnd(t, qh) ==
    LET midnight == (t \div Day) * Day
    IN  IF TimeOfDay(t) < qh.end THEN midnight + qh.end
        ELSE midnight + Day + qh.end

StatedFireTime(raw, qh) ==
    IF InQuietWindow(TimeOfDay(raw), qh) THEN NextQuietEnd(raw, qh) ELSE raw

\* C19: with quiet hours enabled, the fire time of every notification
\* scheduleAllTaskNotifications hands to the store is the stated
\* adjustment of its computed instant, whatever the time of scheduling.
C19_QuietHoursFromInstant ==
    [][\A k \in (Len(scheduling) + 1)..Len(scheduling') :
          settings.quietHours.enabled
             => scheduling'[k].scheduled_for =
                   StatedFireTime(scheduling'[k].raw, settings.quietHours)]_vars

\* C20: no notification row is persisted by a scheduleAllTaskNotifications
\* call whose due date is not after the time of the call.
C20_PastDueSchedulesNothing ==
    \A k \in 1..Len(scheduling) :
       scheduling[k].pc = "saved" => scheduling[k].dueDate > scheduling[k].at

\* C21: every notification handed to the store, and every row persisted
\* from it, has a fire time strictly later than the instant at which it was
\* scheduled, the quiet-hours adjustment included.
C21_ScheduledInFuture ==
    /\ \A k \in 1..Len(scheduling) :
          scheduling[k].scheduled_for > scheduling[k].at
    /\ \A n \in 1..Len(task_notifications) :
          \E k \in 1..Len(scheduling) :
             /\ scheduling[k].pc = "saved"
             /\ scheduling[k].scheduled_for = task_notifications[n].scheduled_for
             /\ task_notifications[n].scheduled_for > scheduling[k].at

\* A row was persisted whose fire time the quiet-hours adjustment moved.
C21_Witness ==
    \E k \in 1..Len(scheduling) :
       /\ scheduling[k].pc = "saved"
       /\ isQuietHours(settings, scheduling[k].at)
       /\ scheduling[k].scheduled_for # scheduling[k].raw
       /\ \E n \in 1..Len(task_notifications) :
             task_notifications[n].scheduled_for = scheduling[k].scheduled_for

\* The requests a step of scheduleAllTaskNotifications adds.
NewRequests == (Len(scheduling) + 1)..Len(scheduling')

\* C22: before the quiet-hours adjustment the fire time is the due date
\* less the lead minutes for a reminder, the due date plus 60 minutes for
\* an overdue alert, and the scheduling time plus 24 hours, whatever the
\* due date, for a completion check.
C22_RawFireTimes ==
    [][\A k \in NewRequests :
          LET r == scheduling'[k]
          IN  /\ r.kind = "reminder"
                    => r.raw = r.dueDate - settings.reminderMinutes
              /\ r.kind = "overdue" => r.raw = r.dueDate + 60
              /\ r.kind = "completion_reminder" => r.raw = clock + 24 * 60]_vars

\* One call has handed all three kinds to the store, the completion check
\* at a time other than 24 hours after the due date.
C22_Witness ==
    \E c \in 1..Len(scheduleCalls) :
       /\ \A kind \in {"reminder", "overdue", "completion_reminder"} :
             \E k \in 1..Len(scheduling) :
                scheduling[k].call = c /\ scheduling[k].kind = kind
       /\ \E k \in 1..Len(scheduling) :
             /\ scheduling[k].call = c
             /\ scheduling[k].kind = "completion_reminder"
             /\ scheduling[k].raw = scheduleCalls[c].at + 24 * 60
             /\ scheduling[k].raw # scheduleCalls[c].dueDate + 24 * 60

\* The settings of the three-rows scenario: every kind enabled, a lead
\* of 30 minutes, quiet hours disabled.
AllKindsNoQuiet(s) ==
    /\ s.enabled /\ s.overdueEnabled /\ s.completionReminders
    /\ s.reminderMinutes = 30
    /\ ~s.quietHours.enabled

\* The step is a call of scheduleAllTaskNotifications.
IsScheduleCall == Len(scheduleCalls') = Len(scheduleCalls) + 1

\* C23: with every kind enabled, a lead of 30 minutes, quiet hours
\* disabled and the store reachable, a call made earlier than 30 minutes
\* before the due date hands exactly three rows to the store, a reminder
\* at due - 30 min, an overdue alert at due + 60 min and a completion check
\* at now + 24 h, and every insert that succeeds persists its row with
\* that fire time.
C23_ThreeRows ==
    [][/\ LET call == scheduleCalls'[Len(scheduleCalls')]
           IN  (/\ IsScheduleCall
                /\ AllKindsNoQuiet(settings) /\ isConnectedToSupabase
                /\ call.reminderEnabled /\ call.dueDate # NoDue
                /\ clock < call.dueDate - 30)
               => /\ Len(scheduling') = Len(scheduling) + 3
                  /\ \A k \in NewRequests : scheduling'[k].task = call.task
                  /\ LET at(n) == scheduling'[Len(scheduling) + n]
                     IN  /\ at(1).kind = "reminder"
                         /\ at(1).scheduled_for = call.dueDate - 30
                         /\ at(2).kind = "overdue"
                         /\ at(2).scheduled_for = call.dueDate + 60
                         /\ at(3).kind = "completion_reminder"
                         /\ at(3).scheduled_for = clock + 24 * 60
       /\ \A k \in 1..Len(scheduling) :
             (scheduling[k].pc = "inserting" /\ scheduling'[k].pc = "saved")
                => /\ Len(task_notifications') = Len(task_notifications) + 1
                   /\ LET row == task_notifications'[Len(task_notifications')]
                      IN  /\ row.task_id = scheduling[k].task
                          /\ row.notification_type = scheduling[k].kind
                          /\ row.scheduled_for = scheduling[k].scheduled_for
                   /\ \A n \in 1..Len(task_notifications) :
                         task_notifications'[n] = task_notifications[n]]_vars

\* The scenario has run to its end: the store holds exactly three rows of
\* the task, one per kind, with the three fire times.
C23_Witness ==
    \E c \in 1..Len(scheduleCalls) :
       LET call == scheduleCalls[c]
           rows == {n \in 1..Len(task_notifications) :
                      task_notifications[n].task_id = call.task}
           has(kind, time) ==
              \E n \in rows :
                 /\ task_notifications[n].notification_type = kind
                 /\ task_notifications[n].scheduled_for = time
       IN  /\ AllKindsNoQuiet(settings) /\ isConnectedToSupabase
           /\ call.reminderEnabled /\ call.dueDate # NoDue
           /\ call.at < call.dueDate - 30
           /\ Cardinality(rows) = 3
           /\ has("reminder", call.dueDate - 30)
           /\ has("overdue", call.dueDate + 60)
           /\ has("completion_reminder", call.at + 24 * 60)

\* C24: the kinds a call of scheduleAllTaskNotifications hands to the
\* store are chosen by three independent flags: with the store reachable,
\* a kind whose fire time is in the future is scheduled exactly when its
\* own flag is set (enabled for the reminder, overdueEnabled for the
\* overdue alert, completionReminders for the completion check).
C24_IndependentFlags ==
    [][LET call == scheduleCalls'[Len(scheduleCalls')]
           scheduled(kind) ==
              \E k \in NewRequests : scheduling'[k].kind = kind
       IN  (/\ IsScheduleCall /\ isConnectedToSupabase
            /\ call.reminderEnabled /\ call.dueDate # NoDue)
           => /\ (call.dueDate - settings.reminderMinutes > clock)
                    => (scheduled("reminder") <=> settings.enabled)
              /\ (call.dueDate + 60 > clock)
                    => (scheduled("overdue") <=> settings.overdueEnabled)
              /\ scheduled("completion_reminder")
                    <=> settings.completionReminders]_vars

\* C25: a call of scheduleAllTaskNotifications with reminderEnabled false,
\* or with no due date, hands nothing to the store, arms no delivery and
\* leaves the list in memory unchanged; no insert is ever made for it.
C25_NoOpWithoutReminder ==
    [][/\ LET call == scheduleCalls'[Len(scheduleCalls')]
           IN  (IsScheduleCall
                   /\ (~call.reminderEnabled \/ call.dueDate = NoDue))
               => UNCHANGED <<scheduling, task_notifications, armed,
                              notifications>>
       /\ \A k \in 1..Len(scheduling) :
             /\ scheduleCalls[scheduling[k].call].reminderEnabled
             /\ scheduleCalls[scheduling[k].call].dueDate # NoDue]_vars

\* With every kind enabled and the store reachable, a call was made with
\* a due date in the future and reminderEnabled false, and nothing
\* was scheduled.
C25_Witness ==
    /\ settings.enabled /\ settings.overdueEnabled
    /\ settings.completionReminders /\ isConnectedToSupabase
    /\ \E c \in 1..Len(scheduleCalls) :
          /\ ~scheduleCalls[c].reminderEnabled
          /\ scheduleCalls[c].dueDate - 30 > scheduleCalls[c].at
          /\ \A k \in 1..Len(scheduling) : scheduling[k].call # c
    /\ task_notifications = <<>> /\ armed = <<>> /\ notifications = <<>>

\* C26: within one call of scheduleAllTaskNotifications the failure of
\* one insert gives up that kind alone: the inserts of the other kinds stay
\* in flight, to be persisted and armed, and nothing already persisted or
\* armed is touched.
C26_FailureDoesNotBlock ==
    [][\A k \in 1..Len(scheduling) :
          (scheduling[k].pc = "inserting" /\ scheduling'[k].pc = "failed")
             => /\ \A j \in 1..Len(scheduling) :
                      j # k => scheduling'[j] = scheduling[j]
                /\ UNCHANGED <<task_notifications, notifications, armed>>]_vars

\* In one call the insert of one kind failed and another kind was persisted
\* and armed.
C26_Witness ==
    \E k, j \in 1..Len(scheduling) :
       /\ scheduling[k].call = scheduling[j].call
       /\ scheduling[k].pc = "failed"
       /\ scheduling[j].pc = "saved"
       /\ \E n \in 1..Len(task_notifications) :
             /\ task_notifications[n].task_id = scheduling[j].task
             /\ task_notifications[n].notification_type = scheduling[j].kind
       /\ \E a \in 1..Len(armed) : armed[a].at = scheduling[j].scheduled_for

\* The step on which the delete of the j-th cancelTaskNotifications call
\* returns.
DeleteReturns(j) ==
    cancelling[j].pc = "deleting" /\ cancelling'[j].pc # "deleting"

\* C27: cancelTaskNotifications removes exactly the unsent rows of its
\* task, from the store and from the list in memory, and leaves the sent
\* rows and the rows of other tasks as they are; when the delete fails the
\* list in memory is unchanged.
C27_CancelRemovesUnsent ==
    [][\A j \in 1..Len(cancelling) :
          DeleteReturns(j) =>
             LET task == cancelling[j].task
                 kept(row) == row.task_id # task \/ row.sent
             IN  IF cancelling'[j].deleted
                 THEN /\ task_notifications' =
                            SelectSeq(task_notifications, kept)
                      /\ notifications' = SelectSeq(notifications, kept)
                 ELSE UNCHANGED <<task_notifications, notifications>>]_vars

\* C28: when cancelTaskNotifications has completed for a task, the
\* cancellation of every browser delivery armed for that task has been
\* requested.
C28_CancelDisarmsDeliveries ==
    [][\A j \in 1..Len(cancelling) :
          (DeleteReturns(j) /\ cancelling'[j].deleted)
             => \A a \in 1..Len(armed) :
                   armed[a].task_id = cancelling[j].task
                      => armed'[a].cancelled]_vars

\* C29: the isQuietHours value the hook returns is true exactly when quiet
\* hours are enabled and the time of day lies in the half-open window
\* [start, end), which wraps midnight when start > end; it is false at
\* the time of day end, and always false when start = end.
C29_QuietWindowHalfOpen ==
    isQuietHours(settings, clock)
       <=> (settings.quietHours.enabled
               /\ InQuietWindow(TimeOfDay(clock), settings.quietHours))

\* The fire time of the row with this id in a list, as a set: empty when
\* the list has no such row.
FireTimes(list, id) ==
    {list[n].scheduled_for : n \in {m \in 1..Len(list) : list[m].id = id}}

\* C30: saving settings, the quiet hours among them, and evaluating
\* isQuietHours when a call schedules, leave every notification already
\* persisted or held in memory as it is; on no step does a row that stays
\* in the store or in memory change its fire time.
C30_SettingsLeaveFireTimes ==
    [][/\ (\/ settings' # settings
           \/ saving' # saving
           \/ IsScheduleCall)
          => UNCHANGED <<task_notifications, notifications, armed>>
       /\ \A k \in 1..Len(scheduling) :
             /\ FireTimes(task_notifications', k)
                   \subseteq FireTimes(task_notifications, k)
                         \cup {scheduling[k].scheduled_for}
             /\ FireTimes(notifications', k)
                   \subseteq FireTimes(notifications, k)
                         \cup {scheduling[k].scheduled_for}]_vars

\* Settings were saved with quiet hours under which a notification held
\* in memory and in the store would now be moved, and it still has the
\* fire time it was persisted with.
C30_Witness ==
    /\ \E j \in 1..Len(saving) : saving[j].pc = "done"
    /\ task_notification_settings = settings
    /\ \E k \in 1..Len(scheduling) :
          /\ scheduling[k].pc = "saved"
          /\ FireTimes(task_notifications, k) = {scheduling[k].scheduled_for}
          /\ FireTimes(notifications, k) = {scheduling[k].scheduled_for}
          /\ AdjustForQuietHours(scheduling[k].scheduled_for, settings, clock)
                # scheduling[k].scheduled_for

\* ------------------------------------------- inserts through withRetry

\* The tables the code inserts into through withRetry: notifications
\* (supabase.ts:845-859), reports (supabase.ts:542-557), audit rows of
\* sessions (useTavusVideo.ts:226-245).
Tables == {"task_notifications", "video_session_reports", "video_sessions"}

\* Whether a second insert of the same data is refused by the table.
\* task_notifications has a generated primary key and no other unique
\* constraint (20250629081011_polished_art.sql:43-52); the definitions of
\* the other two tables are not part of the sources, so both cases occur.
UniqueChoices(table) ==
    IF table = "task_notifications" THEN {FALSE} ELSE BOOLEAN

\* withRetry calls the operation again after it threw, while attempts
\* remain (RetryPolicy.execute).
RetryWrite(attempt) == attempt < MaxWriteAttempts

\* An insert is started through withRetry.
BeginWrite ==
    /\ Len(writes) < MaxWrites
    /\ \E table \in Tables : \E unique \in UniqueChoices(table) :
          writes' = Append(writes, [table |-> table, unique |-> unique,
                                    attempt |-> 1, rows |-> 0,
                                    pc |-> "inserting"])
    /\ UNCHANGED <<hookState, hookRefs, compState, dirty, tavusApiKey,
                   keyValid, isOnline, isConnectedToSupabase, remindVars,
                   clockVars, inputs, ticksDue, providerVars, deviceVars,
                   storeVars, starts, ends>>

\* One attempt of an insert ends.  The request reached the store or not;
\* the response reached the client or not.  An insert that reaches the
\* store adds a row, unless the table refuses it as a duplicate.  The
\* callback returns when it has the row and throws on an error
\* (supabase.ts:852-858), and withRetry then tries again or gives up.
WriteAttemptDone(w) ==
    /\ writes[w].pc = "inserting"
    /\ \E reached \in BOOLEAN, answered \in BOOLEAN :
         LET refused == writes[w].unique /\ writes[w].rows >= 1
             rows == IF reached /\ ~refused THEN writes[w].rows + 1
                     ELSE writes[w].rows
             succeeded == reached /\ ~refused /\ answered
         IN  writes' = [writes EXCEPT ![w] =
                [@ EXCEPT !.rows = rows,
                          !.attempt = IF ~succeeded /\ RetryWrite(@)
                                      THEN @ + 1 ELSE @,
                          !.pc = IF succeeded THEN "done"
                                 ELSE IF RetryWrite(writes[w].attempt)
                                 THEN "inserting" ELSE "failed"]]
    /\ UNCHANGED <<hookState, hookRefs, compState, dirty, tavusApiKey,
                   keyValid, isOnline, isConnectedToSupabase, remindVars,
                   clockVars, inputs, ticksDue, providerVars, deviceVars,
                   storeVars, starts, ends>>

RetryNext ==
    \/ BeginWrite
    \/ \E w \in 1..Len(writes) : WriteAttemptDone(w)

RetrySpec == Init /\ [][RetryNext]_vars

\* ------------------------------------------------------------ claims

\* C31: when a session ends, the analysis is run and a report row written
\* only for a session with a session id and a duration other than zero.
C31_ReportNeedsDuration ==
    [][\A j \in 1..Len(ends) :
          (\/ ends[j].pc # "reporting" /\ ends'[j].pc = "reporting"
           \/ ends[j].pc = "reporting" /\ reports' # reports)
             => ends'[j].sd # None /\ ends[j].dur > 0]_vars

\* C32: the report is generated only once endSession has torn the
\* session down, and whether its insert succeeds or fails, the hook's state,
\* the released stream and the stopped timer are left as they are and
\* handleEndSession runs to its end.
C32_ReportAfterTeardown ==
    [][\A j \in 1..Len(ends) :
          /\ (ends[j].pc # "reporting" /\ ends'[j].pc = "reporting")
                => /\ localStreamRef' = None /\ ~sessionTimerRef'
                   /\ mounted => (/\ ~isSessionActive' /\ ~isLoading'
                                  /\ sessionData' = None)
          /\ (ends[j].pc = "reporting" /\ ends'[j].pc # "reporting")
                => /\ UNCHANGED <<hookState, hookRefs, deviceVars>>
                   /\ ends'[j].pc = "done"
                   /\ sessionStartTime' = Set(sessionStartTime, NoTime)]_vars

\* The report of an ended session failed, and the session is torn down:
\* nothing active, the stream stopped, the timer off.
C32_Witness ==
    /\ mounted /\ ~isSessionActive /\ ~isLoading /\ sessionData = None
    /\ localStreamRef = None /\ ~sessionTimerRef
    /\ sessionStartTime = NoTime
    /\ \E j \in 1..Len(ends) : ends[j].report = "failed"
    /\ \A h \in Streams : trackStops[h] >= 1

\* C33: a store write that is retried after it reached the store leaves
\* exactly one row for the logical write: no insert made through withRetry
\* ever has more than one row in its table.
C33_RetriedWriteOneRow ==
    \A w \in 1..Len(writes) : writes[w].rows <= 1

\* C34: the duration persisted at the end of a session and passed to its
\* report counts time of that session only: whenever a session is
\* started with every earlier start and end over and no session active,
\* the duration counter it will count in stands at 0.
C34_DurationStartsAtZero ==
    [][(/\ Len(starts') = Len(starts) + 1
        /\ \A k \in 1..Len(starts) : starts[k].pc = "done"
        /\ \A j \in 1..Len(ends) : ends[j].pc = "done"
        /\ ~isSessionActive /\ ~sessionTimerRef)
          => sessionDuration = 0]_vars

C36_ArmedAfterPersisted ==
    [][/\ armed' # armed
          => \E k \in 1..Len(scheduling) :
                /\ scheduling[k].pc = "inserting" /\ scheduling'[k].pc = "saved"
                /\ Len(task_notifications') = Len(task_notifications) + 1
                /\ LET row == task_notifications'[Len(task_notifications')]
                   IN  armed' = Append(armed, [task_id |-> row.task_id,
                                               at |-> row.scheduled_for,
                                               cancelled |-> FALSE])
       /\ \A k \in 1..Len(scheduling) :
             (scheduling[k].pc = "inserting" /\ scheduling'[k].pc = "failed")
                => UNCHANGED <<armed, notifications>>]_vars

\* One insert has failed and armed nothing; another has persisted its
\* row, and the one delivery armed has the fire time of that row.
C36_Witness ==
    /\ \E k \in 1..Len(scheduling) : scheduling[k].pc = "failed"
    /\ Len(armed) = 1 /\ Len(task_notifications) = 1 /\ Len(notifications) = 1
    /\ armed[1].at = task_notifications[1].scheduled_for
    /\ armed[1].task_id = task_notifications[1].task_id

\* C37: the quiet-hours adjustment never moves a fire time earlier: the
\* fire time of every notification handed to the store is at or after the
\* one computed before the adjustment.
C37_AdjustmentNeverEarlier ==
    \A k \in 1..Len(scheduling) :
       scheduling[k].scheduled_for >= scheduling[k].raw

\* A notification was scheduled during quiet hours with a fire time after
\* today's end of quiet hours, and was persisted with it.
C37_Witness ==
    /\ saving = <<>>
    /\ \E k \in 1..Len(scheduling) :
          /\ scheduling[k].pc = "saved"
          /\ isQuietHours(settings, scheduling[k].at)
          /\ quietEnd(settings, scheduling[k].at) < scheduling[k].raw
          /\ scheduling[k].scheduled_for = scheduling[k].raw

C39_FailedSaveKeepsSettings ==
    [][\A j \in 1..Len(saving) :
          (saving[j].pc = "upserting" /\ saving'[j].pc = "failed")
             => settings' = task_notification_settings']_vars

\* C40: once the component is unmounted and no start or end is still
\* running, no stream is held, and the duration timer is stopped.
C40_NothingOnAfterUnmount ==
    (~mounted /\ (\A i \in 1..Len(starts) : starts[i].pc = "done")
              /\ (\A j \in 1..Len(ends) : ends[j].pc = "done"))
       => (localStreamRef = None /\ ~sessionTimerRef)

====
